---- MODULE Spec2Model ----
(***************************************************************************)
(* Model of the rumio register algebra: the Value / Field types and the    *)
(* bit-range functions of src/lib.rs and the permission markers of         *)
(* src/perm.rs.                                                            *)
(*                                                                         *)
(* An integer of type I (u8, u16, u32, u64) is represented by the set of   *)
(* the positions of its 1-bits, a subset of 0..W-1 where W is the width of *)
(* I.  The bitwise operators of the Int trait are then set operations and  *)
(* the shifts move positions, dropping those that leave 0..W-1, which is   *)
(* what the fixed-width Rust operators do.                                 *)
(***************************************************************************)
EXTENDS Integers, FiniteSets, Sequences, TLC

VARIABLES width, num, vals, flds, call, decl, reg, pc, loc, hist,
          mem, hnd, dev, build, trace, steps

vars == <<width, num, vals, flds, call, decl, reg, pc, loc, hist,
          mem, hnd, dev, build, trace, steps>>

\* The memory (the set of the addresses of its 1-bits), the volatile address
\* in hand, the device structure, the build of the program, the volatile
\* accesses made so far, and the number of calls made so far.
memvars == <<mem, hnd, dev, build, trace, steps>>

\* No memory is accessed through a volatile address.
NoMemory ==
    /\ mem = {}
    /\ hnd = [none |-> TRUE]
    /\ dev = [none |-> TRUE]
    /\ build = [none |-> TRUE]
    /\ trace = <<>>
    /\ steps = 0

\* The state of a register and of the callers that access it.
regvars == <<decl, reg, pc, loc, hist>>

\* The writes made to the register are not recorded.
NoHist == [none |-> TRUE]

\* No register is declared.
NoRegister ==
    /\ decl = "none"
    /\ reg = {}
    /\ pc = <<>>
    /\ loc = <<>>
    /\ hist = NoHist

(***************************************************************************)
(* Bounds of the model.                                                    *)
(***************************************************************************)
\* Input integers are the W-bit integers whose bit pattern repeats with
\* this period (all 2^Period of them), plus the literals of the doc tests.
Period == 2

(***************************************************************************)
(* The integer types (Int) and their operators.                            *)
(***************************************************************************)
\* impl_int!(u8, u16, u32, u64, usize): the bit widths of the Int types.
Widths == {8, 16, 32, 64}

\* All bit positions of a W-bit integer.
AllBits(W) == 0 .. (W - 1)

\* I::default(), the zero value.
Default == {}

\* Not::not on a W-bit integer.
Not(a, W) == AllBits(W) \ a

\* BitAnd::bitand
BitAnd(a, b) == a \cap b

\* BitOr::bitor
BitOr(a, b) == a \cup b

\* Shl<usize>::shl on a W-bit integer: bits shifted past W-1 are lost.
Shl(a, k, W) == {i + k : i \in {j \in a : j + k < W}}

\* Shr<usize>::shr: bits shifted below 0 are lost, zeros come in from above.
Shr(a, k) == {i - k : i \in {j \in a : j >= k}}

\* The integer literal n (n < 2^8) as a value of an Int type.
Lit(n) == {i \in 0 .. 7 : (n \div (2 ^ i)) % 2 = 1}

RECURSIVE Nat_(_)
\* The number an integer with all its 1-bits below position 16 stands for.
Nat_(a) == IF a = {} THEN 0
           ELSE LET i == CHOOSE j \in a : TRUE IN (2 ^ i) + Nat_(a \ {i})

\* The W-bit integer whose bit i is 1 exactly when (i mod Period) is in p.
Pattern(p, W) == {i \in AllBits(W) : (i % Period) \in p}

\* The input integers of width W.
Ints(W) == {Pattern(p, W) : p \in SUBSET (0 .. (Period - 1))}

(***************************************************************************)
(* Value<I> (src/lib.rs)                                                   *)
(***************************************************************************)
NoValue == [none |-> TRUE]

Idle == [op |-> "idle"]

Slots == {"a", "b"}

\* Value::new without the masking of bits.
Value_new_unmasked(mask, bits) == [mask |-> mask, bits |-> bits]

\* Value::new(mask, bits)
Value_new(mask, bits) == [mask |-> mask, bits |-> BitAnd(bits, mask)]

\* Value::modify that ORs the bits in without clearing the masked bits.
Value_modify_noclear(self, val, W) == BitOr(val, self.bits)

\* Value::modify that toggles the bits instead of setting them.
Value_modify_toggle(self, val, W) ==
    (BitAnd(val, Not(self.mask, W)) \cup self.bits) \ BitAnd(val, self.bits)

\* Value::modify(self, val)
Value_modify(self, val, W) == BitOr(BitAnd(val, Not(self.mask, W)), self.bits)

\* BitOr for Value that keeps only the left mask.
Value_bitor_leftmask(self, rhs) ==
    [mask |-> self.mask, bits |-> BitOr(self.bits, rhs.bits)]

\* BitOr for Value that lets the right operand win on its mask.
Value_bitor_lastwins(self, rhs) ==
    [mask |-> BitOr(self.mask, rhs.mask),
     bits |-> BitOr(self.bits \ rhs.mask, rhs.bits)]

\* impl BitOr<Value<I>> for Value<I>
Value_bitor(self, rhs) ==
    [mask |-> BitOr(self.mask, rhs.mask), bits |-> BitOr(self.bits, rhs.bits)]

(***************************************************************************)
(* Specification of the Value operations.                                  *)
(***************************************************************************)
InitValue ==
    /\ width \in Widths
    /\ NoRegister
    /\ NoMemory
    /\ num = Default
    /\ vals = [s \in Slots |-> NoValue]
    /\ flds = <<>>
    /\ call = Idle

\* let v = Value::new(mask, bits);
ValueNew(s, mask, bits) ==
    /\ vals' = [vals EXCEPT ![s] = Value_new(mask, bits)]
    /\ call' = [op |-> "Value::new", mask |-> mask, bits |-> bits,
                out |-> Value_new(mask, bits)]
    /\ UNCHANGED <<memvars, regvars, width, num, flds>>

\* let x = v.modify(val);
ValueModify(s, val) ==
    /\ vals[s] # NoValue
    /\ call' = [op |-> "Value::modify", self |-> vals[s], val |-> val,
                out |-> Value_modify(vals[s], val, width)]
    /\ UNCHANGED <<memvars, regvars, width, num, vals, flds>>

\* let v = v1 | v2;  (the result replaces the left operand's variable)
ValueBitOr(s, t) ==
    /\ vals[s] # NoValue
    /\ vals[t] # NoValue
    /\ vals' = [vals EXCEPT ![s] = Value_bitor(vals[s], vals[t])]
    /\ call' = [op |-> "Value::bitor", self |-> vals[s], rhs |-> vals[t],
                out |-> Value_bitor(vals[s], vals[t])]
    /\ UNCHANGED <<memvars, regvars, width, num, flds>>

NextValue ==
    \/ \E s \in Slots, mask \in Ints(width), bits \in Ints(width) :
          ValueNew(s, mask, bits)
    \/ \E s \in Slots, val \in Ints(width) : ValueModify(s, val)
    \/ \E s \in Slots, t \in Slots : ValueBitOr(s, t)

SpecValue == InitValue /\ [][NextValue]_vars

(***************************************************************************)
(* Properties of Value, checked under SpecValue.                           *)
(***************************************************************************)
\* C1: Value::new(mask, bits) stores exactly bits & mask: a bit of the
\* stored bits is 1 exactly when it is 1 in the argument and in the mask,
\* so every bit of the argument outside the mask is dropped.
C1_NewStoresMaskedBits ==
    call.op = "Value::new" =>
        /\ call.out.mask = call.mask
        /\ \A i \in AllBits(width) :
              i \in call.out.bits <=> (i \in call.bits /\ i \in call.mask)
        /\ vals["a"] = call.out \/ vals["b"] = call.out

\* Value::new was called with bits that lie partly outside the mask.
C1_Witness ==
    /\ call.op = "Value::new"
    /\ call.bits \ call.mask # {}
    /\ call.bits \cap call.mask # {}

\* C2: Value::new(mask, bits).modify(original) is
\* (original & !mask) | (bits & mask): inside the mask the result carries
\* bits, outside the mask it equals original.
C2_ModifyResult ==
    call.op = "Value::modify" =>
        \A mask \in Ints(width), bits \in Ints(width) :
            call.self = Value_new(mask, bits) =>
                \A i \in AllBits(width) :
                    i \in call.out <=> IF i \in mask THEN i \in bits
                                                     ELSE i \in call.val

\* modify was applied by a Value built by Value::new from bits reaching
\* outside its mask, to an original with 1-bits inside and outside the mask.
C2_Witness ==
    /\ call.op = "Value::modify"
    /\ \E mask \in Ints(width), bits \in Ints(width) :
          /\ call.self = Value_new(mask, bits)
          /\ bits \ mask # {}
          /\ call.val \cap mask # {}
          /\ call.val \ mask # {}
          /\ call.out # call.val

\* C3: Value::modify is idempotent: applying the Value again to the result
\* of modify gives that result.
C3_ModifyIdempotent ==
    call.op = "Value::modify" =>
        Value_modify(call.self, call.out, width) = call.out

\* modify changed its argument, setting some bits and clearing others.
C3_Witness ==
    /\ call.op = "Value::modify"
    /\ call.out \ call.val # {}
    /\ call.val \ call.out # {}

\* C4: v1 | v2 has mask mask1 | mask2 and bits bits1 | bits2, also when the
\* masks overlap, and the combination of two Values is always possible.
C4_BitOrResult ==
    /\ call.op = "Value::bitor" =>
          \A i \in AllBits(width) :
              /\ i \in call.out.mask <=>
                     (i \in call.self.mask \/ i \in call.rhs.mask)
              /\ i \in call.out.bits <=>
                     (i \in call.self.bits \/ i \in call.rhs.bits)
    /\ \A s \in Slots, t \in Slots :
          (vals[s] # NoValue /\ vals[t] # NoValue) => ENABLED ValueBitOr(s, t)

\* Two Values with overlapping masks and different bits on the overlap were
\* combined.
C4_Witness ==
    /\ call.op = "Value::bitor"
    /\ call.self.mask \cap call.rhs.mask # {}
    /\ call.self.bits \cap call.rhs.mask # call.rhs.bits \cap call.self.mask
    /\ call.self.mask # call.rhs.mask

\* C5 as stated: on every bit covered by both masks the combined Value
\* carries the bit of the second operand.
C5_LastBitWins ==
    call.op = "Value::bitor" =>
        \A i \in call.self.mask \cap call.rhs.mask :
            i \in call.out.bits <=> i \in call.rhs.bits

\* C5 (amended): on every bit covered by both masks the combined Value
\* carries the OR of the two operands' bits: it is 1 when either operand
\* has a 1 there, whatever the operand order.
C5_OverlapIsOr ==
    call.op = "Value::bitor" =>
        /\ \A i \in call.self.mask \cap call.rhs.mask :
              i \in call.out.bits <=>
                  (i \in call.self.bits \/ i \in call.rhs.bits)
        /\ call.out = Value_bitor(call.rhs, call.self)

\* Two Values were combined where, on a bit covered by both masks, the first
\* operand has a 1 and the second a 0.
C5_Witness ==
    /\ call.op = "Value::bitor"
    /\ \E i \in call.self.mask \cap call.rhs.mask :
          i \in call.self.bits /\ i \notin call.rhs.bits

(***************************************************************************)
(* get_bits / set_bits (src/lib.rs)                                        *)
(***************************************************************************)
\* The integer literals of the doc tests of get_bits and set_bits.
DocLits == {27, 3, 2, 5, 25}

\* The integers given to get_bits and set_bits.
BitInts(W) == Ints(W) \cup {Lit(n) : n \in DocLits}

\* The ranges (start, end) that satisfy the callers' contract for width W.
Ranges(W) == {r \in AllBits(W) \X AllBits(W) : r[1] <= r[2]}

\* get_bits that forgets the final shift down to bit 0.
get_bits_unaligned(n, r, W) ==
    LET bit_len == W
        end == r[2] + 1
    IN  Shr(Shl(n, bit_len - end, W), bit_len - end)

\* get_bits(num, (start, end)) for an integer type of W bits
get_bits(n, r, W) ==
    LET bit_len == W
        start == r[1]
        end == r[2] + 1
        bits == Shr(Shl(n, bit_len - end, W), bit_len - end)
    IN  Shr(bits, start)

\* set_bits that does not restrict the shifted bits to the range.
set_bits_leaky(n, r, b, W) ==
    LET bit_len == W
        start == r[1]
        end == r[2] + 1
        mask0 == Shr(Shl(Not(Default, W), bit_len - end, W), bit_len - end)
        mask == Not(Shl(Shr(mask0, start), start, W), W)
    IN  BitOr(BitAnd(n, mask), Shl(b, start, W))

\* set_bits that builds its mask for the exclusive range start..end-1.
set_bits_exclusive(n, r, b, W) ==
    LET bit_len == W
        start == r[1]
        end == r[2]
        mask0 == Shr(Shl(Not(Default, W), bit_len - end, W), bit_len - end)
        mask == Not(Shl(Shr(mask0, start), start, W), W)
    IN  BitOr(BitAnd(n, mask), BitAnd(Shl(b, start, W), Not(mask, W)))

\* set_bits(num, (start, end), bits) for an integer type of W bits
set_bits(n, r, b, W) ==
    LET bit_len == W
        start == r[1]
        end == r[2] + 1
        mask0 == Shr(Shl(Not(Default, W), bit_len - end, W), bit_len - end)
        mask == Not(Shl(Shr(mask0, start), start, W), W)
    IN  BitOr(BitAnd(n, mask), BitAnd(Shl(b, start, W), Not(mask, W)))

(***************************************************************************)
(* Specification of the bit-range functions: x is an integer in hand; the  *)
(* program either extracts a range of x, or replaces a range of x and then *)
(* extracts the same range again.                                          *)
(***************************************************************************)
InitBits ==
    /\ width \in Widths
    /\ NoRegister
    /\ NoMemory
    /\ num \in BitInts(width)
    /\ vals = [s \in Slots |-> NoValue]
    /\ flds = <<>>
    /\ call = Idle

\* let y = get_bits(x, (start, end));
GetBits ==
    /\ call.op \in {"idle", "set_bits"}
    /\ \E r \in (IF call = Idle THEN Ranges(width) ELSE {call.range}) :
          call' = [op |-> "get_bits", num |-> num, range |-> r,
                   out |-> get_bits(num, r, width), after |-> call]
    /\ UNCHANGED <<memvars, regvars, width, num, vals, flds>>

\* let x = set_bits(x, (start, end), bits);
SetBits ==
    /\ call = Idle
    /\ \E r \in Ranges(width), b \in BitInts(width) :
          /\ num' = set_bits(num, r, b, width)
          /\ call' = [op |-> "set_bits", num |-> num, range |-> r, bits |-> b,
                      out |-> set_bits(num, r, b, width)]
    /\ UNCHANGED <<memvars, regvars, width, vals, flds>>

NextBits ==
    \/ GetBits
    \/ SetBits

SpecBits == InitBits /\ [][NextBits]_vars

(***************************************************************************)
(* Properties of get_bits and set_bits, checked under SpecBits.            *)
(***************************************************************************)
\* The number of bits of the range r.
RangeLen(r) == r[2] - r[1] + 1

\* C6: for every width and every range 0 <= start <= end < W, including the
\* full-width range, get_bits(num, (start, end)) is the bits start..end of
\* num right-aligned to bit 0, i.e. (num >> start) mod 2^(end-start+1);
\* get_bits(0b011011, (1,3)) = 0b101.
C6_GetBitsResult ==
    call.op = "get_bits" =>
        /\ \A p \in AllBits(width) :
              p \in call.out <=>
                  (p < RangeLen(call.range) /\ (p + call.range[1]) \in call.num)
        /\ width <= 16 =>
              Nat_(call.out) = (Nat_(call.num) \div (2 ^ call.range[1]))
                                   % (2 ^ RangeLen(call.range))
        /\ (call.num = Lit(27) /\ call.range = <<1, 3>>) => call.out = Lit(5)
        /\ (call.num = Lit(27) /\ call.range = <<0, 1>>) => call.out = Lit(3)
        /\ (call.num = Lit(27) /\ call.range = <<4, 6>>) => call.out = Lit(1)

\* get_bits extracted the full-width range of a non-zero integer, and a
\* range that starts above bit 0 and ends below the top bit with 1-bits of
\* num below, inside and above it.
C6_Witness ==
    /\ call.op = "get_bits"
    /\ \/ call.range = <<0, width - 1>> /\ call.num # {} /\ width = 64
       \/ /\ call.range[1] > 0
          /\ call.range[2] < width - 1
          /\ \E i \in call.num : i < call.range[1]
          /\ \E i \in call.num : i > call.range[2]
          /\ call.out # {}

\* C7: for every width and every valid range, set_bits(num, (start, end),
\* bits) is num with positions start..end replaced by the low end-start+1
\* bits of bits, every position outside start..end is as in num, and bits of
\* the argument above the range length reach no position.
C7_SetBitsResult ==
    call.op = "set_bits" =>
        /\ \A p \in AllBits(width) :
              p \in call.out <=>
                  IF call.range[1] <= p /\ p <= call.range[2]
                  THEN (p - call.range[1]) \in call.bits
                  ELSE p \in call.num
        /\ num = call.out
        /\ (call.num = Lit(0) /\ call.range = <<0, 1>> /\ call.bits = Lit(3))
              => call.out = Lit(3)
        /\ (call.num = Lit(3) /\ call.range = <<1, 3>> /\ call.bits = Lit(2))
              => call.out = Lit(5)
        /\ (call.num = Lit(5) /\ call.range = <<0, 4>> /\ call.bits = Lit(25))
              => call.out = Lit(25)

\* set_bits wrote, into a range that is not the whole integer, bits that
\* have 1-bits above the range length, over a num with 1-bits outside the
\* range; or it wrote the full-width range.
C7_Witness ==
    /\ call.op = "set_bits"
    /\ \/ /\ call.range[2] < width - 1
          /\ \E i \in call.bits : i >= RangeLen(call.range)
          /\ \E i \in call.bits : i < RangeLen(call.range)
          /\ \E i \in call.num : i > call.range[2]
          /\ call.out # call.num
       \/ call.range = <<0, width - 1>> /\ call.out # call.num /\ width = 64

\* C8: round trip: get_bits(set_bits(num, (start, end), bits), (start, end))
\* is bits truncated to its low end-start+1 bits.
C8_RoundTrip ==
    (call.op = "get_bits" /\ call.after.op = "set_bits") =>
        /\ call.num = call.after.out
        /\ call.range = call.after.range
        /\ call.out = {i \in call.after.bits : i < RangeLen(call.range)}

\* get_bits read back a range that set_bits had just written with bits
\* longer than the range, changing the range's previous content.
C8_Witness ==
    /\ call.op = "get_bits"
    /\ call.after.op = "set_bits"
    /\ call.out # call.after.bits
    /\ call.out # {}
    /\ call.out # get_bits(call.after.num, call.range, width)

(***************************************************************************)
(* Permissions (src/perm.rs) and Field<I, P> (src/lib.rs)                  *)
(***************************************************************************)
ReadOnly == "ReadOnly"

WriteOnly == "WriteOnly"

ReadWrite == "ReadWrite"

\* The types that implement Permission.
Permission(P) == P \in {ReadOnly, WriteOnly, ReadWrite}

\* The types that implement Readable.
Readable(P) == P \in {ReadOnly, ReadWrite}

\* The types that implement Writable.
Writable(P) == P \in {WriteOnly, ReadWrite}

\* The answer of the trait solver when no impl of Compatible applies.
NoImpl == "NoImpl"

\* Compatible whose ReadWrite impl has Output = ReadWrite instead of P.
Compatible_rw_keeps(P1, P2) ==
    CASE P1 = ReadOnly /\ Readable(P2) -> ReadOnly
      [] P1 = WriteOnly /\ Writable(P2) -> WriteOnly
      [] P1 = ReadWrite /\ Permission(P2) -> ReadWrite
      [] OTHER -> NoImpl

\* Compatible whose ReadOnly impl is bounded by Permission, not Readable.
Compatible_ro_any(P1, P2) ==
    CASE P1 = ReadOnly /\ Permission(P2) -> ReadOnly
      [] P1 = WriteOnly /\ Writable(P2) -> WriteOnly
      [] P1 = ReadWrite /\ Permission(P2) -> P2
      [] OTHER -> NoImpl

\* <P1 as Compatible<P1, P2>>::Output, or NoImpl when P1 does not implement
\* Compatible<P1, P2>.
Compatible(P1, P2) ==
    CASE P1 = ReadOnly /\ Readable(P2) -> ReadOnly
      [] P1 = WriteOnly /\ Writable(P2) -> WriteOnly
      [] P1 = ReadWrite /\ Permission(P2) -> P2
      [] OTHER -> NoImpl

NoField == [none |-> TRUE]

\* The integer literals of the doc test of Field::read (a u32 test) and the
\* masks of two single-bit fields.
FieldLits == {30, 23, 2, 4}

\* The integers given to the Field operations: the literals are given at
\* the width of the doc test only.
FieldInts(W) ==
    Ints(W) \cup (IF W = 32 THEN {Lit(n) : n \in FieldLits} ELSE {})

\* BitOr for Field that intersects the masks.
Field_bitor_and(self, rhs) ==
    [mask |-> BitAnd(self.mask, rhs.mask),
     perm |-> Compatible(self.perm, rhs.perm)]

\* Field::read that returns the bits outside the mask.
Field_read_outside(self, val) == val \ self.mask

\* Field::<I, P>::new(mask)
Field_new(mask, P) == [mask |-> mask, perm |-> P]

\* Field::read(self, val)
Field_read(self, val) == BitAnd(val, self.mask)

\* impl BitOr<Field<I, P2>> for Field<I, P1>
Field_bitor(self, rhs) ==
    [mask |-> BitOr(self.mask, rhs.mask),
     perm |-> Compatible(self.perm, rhs.perm)]

(***************************************************************************)
(* Specification of the Field operations.                                  *)
(***************************************************************************)
InitField ==
    /\ width \in Widths
    /\ NoRegister
    /\ NoMemory
    /\ num = Default
    /\ vals = [s \in Slots |-> NoValue]
    /\ flds = [s \in Slots |-> NoField]
    /\ call = Idle

\* let f = Field::<I, P>::new(mask);
FieldNew(s, mask, P) ==
    /\ Permission(P)
    /\ flds' = [flds EXCEPT ![s] = Field_new(mask, P)]
    /\ call' = [op |-> "Field::new", mask |-> mask, perm |-> P,
                out |-> Field_new(mask, P)]
    /\ UNCHANGED <<memvars, regvars, width, num, vals>>

\* let d = s | t;  accepted by the compiler only where
\* P1: Compatible<P1, P2> and P2: Permission hold.  Field is Copy and bitor
\* takes its operands by value: only the variable d bound to the result
\* changes.
FieldBitOr(s, t, d) ==
    /\ flds[s] # NoField
    /\ flds[t] # NoField
    /\ Compatible(flds[s].perm, flds[t].perm) # NoImpl
    /\ Permission(flds[t].perm)
    /\ flds' = [flds EXCEPT ![d] = Field_bitor(flds[s], flds[t])]
    /\ call' = [op |-> "Field::bitor", self |-> flds[s], rhs |-> flds[t],
                out |-> Field_bitor(flds[s], flds[t]), at |-> <<s, t, d>>]
    /\ UNCHANGED <<memvars, regvars, width, num, vals>>

\* let x = f.read(val);
FieldRead(s, val) ==
    /\ flds[s] # NoField
    /\ call' = [op |-> "Field::read", self |-> flds[s], val |-> val,
                out |-> Field_read(flds[s], val)]
    /\ UNCHANGED <<memvars, regvars, width, num, vals, flds>>

NextField ==
    \/ \E s \in Slots, mask \in FieldInts(width),
          P \in {ReadOnly, WriteOnly, ReadWrite} : FieldNew(s, mask, P)
    \/ \E s \in Slots, t \in Slots, d \in Slots : FieldBitOr(s, t, d)
    \/ \E s \in Slots, val \in FieldInts(width) : FieldRead(s, val)

SpecField == InitField /\ [][NextField]_vars

(***************************************************************************)
(* Properties of the permission merge, checked under SpecField.            *)
(***************************************************************************)
\* C9: the merge gives ReadOnly for ReadOnly with a Readable P2, WriteOnly
\* for WriteOnly with a Writable P2, and P2 for ReadWrite with any P2; so
\* ReadWrite with ReadOnly is ReadOnly, with WriteOnly is WriteOnly and with
\* ReadWrite is ReadWrite.  Each of these combinations is accepted.
C9_MergeTable ==
    /\ call.op = "Field::bitor" =>
          LET P1 == call.self.perm
              P2 == call.rhs.perm
              Pout == call.out.perm
          IN  /\ (P1 = "ReadOnly" /\ P2 \in {"ReadOnly", "ReadWrite"})
                    => Pout = "ReadOnly"
              /\ (P1 = "WriteOnly" /\ P2 \in {"WriteOnly", "ReadWrite"})
                    => Pout = "WriteOnly"
              /\ P1 = "ReadWrite" => Pout = P2
    /\ \A s \in Slots, t \in Slots :
          (/\ flds[s] # NoField
           /\ flds[t] # NoField
           /\ <<flds[s].perm, flds[t].perm>> \in
                 {<<"ReadOnly", "ReadOnly">>, <<"ReadOnly", "ReadWrite">>,
                  <<"WriteOnly", "WriteOnly">>, <<"WriteOnly", "ReadWrite">>,
                  <<"ReadWrite", "ReadOnly">>, <<"ReadWrite", "WriteOnly">>,
                  <<"ReadWrite", "ReadWrite">>})
             => ENABLED FieldBitOr(s, t, s)

\* A ReadWrite field was combined with a WriteOnly field.
C9_Witness ==
    /\ call.op = "Field::bitor"
    /\ call.self.perm = "ReadWrite"
    /\ call.rhs.perm = "WriteOnly"
    /\ call.out.perm = "WriteOnly"

\* C10: combining a ReadOnly field with a WriteOnly field, in either operand
\* order, is rejected: no Field is produced from such a combination.
C10_ReadOnlyWriteOnlyRejected ==
    /\ call.op = "Field::bitor" =>
          {call.self.perm, call.rhs.perm} # {"ReadOnly", "WriteOnly"}
    /\ \A s \in Slots, t \in Slots :
          (/\ flds[s] # NoField
           /\ flds[t] # NoField
           /\ {flds[s].perm, flds[t].perm} = {"ReadOnly", "WriteOnly"})
             => ~ ENABLED FieldBitOr(s, t, s)

\* A ReadOnly field and a WriteOnly field are in hand, one obtained by a
\* legal combination, and neither order of combining them is accepted.
C10_Witness ==
    /\ call.op = "Field::bitor"
    /\ flds["a"] # NoField
    /\ flds["b"] # NoField
    /\ {flds["a"].perm, flds["b"].perm} = {"ReadOnly", "WriteOnly"}
    /\ ~ ENABLED FieldBitOr("a", "b", "a")
    /\ ~ ENABLED FieldBitOr("b", "a", "b")

\* C11: f1 | f2 is a field whose mask is mask1 | mask2 and whose permission
\* is Compatible(P1, P2); Field(0b0010, ReadOnly) | Field(0b0100, ReadOnly)
\* is Field(0b0110, ReadOnly).  The operand fields are not changed: only the
\* variable bound to the result holds a new field.
C11_FieldBitOrResult ==
    call.op = "Field::bitor" =>
        /\ \A i \in AllBits(width) :
              i \in call.out.mask <=>
                  (i \in call.self.mask \/ i \in call.rhs.mask)
        /\ <<call.self.perm, call.rhs.perm, call.out.perm>> \in
              {<<"ReadOnly", "ReadOnly", "ReadOnly">>,
               <<"ReadOnly", "ReadWrite", "ReadOnly">>,
               <<"WriteOnly", "WriteOnly", "WriteOnly">>,
               <<"WriteOnly", "ReadWrite", "WriteOnly">>,
               <<"ReadWrite", "ReadOnly", "ReadOnly">>,
               <<"ReadWrite", "WriteOnly", "WriteOnly">>,
               <<"ReadWrite", "ReadWrite", "ReadWrite">>}
        /\ (/\ call.self = [mask |-> Lit(2), perm |-> "ReadOnly"]
            /\ call.rhs = [mask |-> Lit(4), perm |-> "ReadOnly"])
              => call.out = [mask |-> Lit(6), perm |-> "ReadOnly"]
        /\ flds[call.at[3]] = call.out
        /\ call.at[1] # call.at[3] => flds[call.at[1]] = call.self
        /\ call.at[2] # call.at[3] => flds[call.at[2]] = call.rhs

\* Field(0b0010, ReadOnly) | Field(0b0100, ReadOnly) was computed, or a
\* field was combined with itself into the other variable and is still in
\* its own.
C11_Witness ==
    /\ call.op = "Field::bitor"
    /\ \/ /\ call.self = [mask |-> Lit(2), perm |-> "ReadOnly"]
          /\ call.rhs = [mask |-> Lit(4), perm |-> "ReadOnly"]
          /\ call.at[2] # call.at[3]
       \/ /\ call.at[1] = call.at[2]
          /\ call.at[1] # call.at[3]
          /\ call.self.mask # {}

(***************************************************************************)
(* Register declarations: the field tables given to define_cpu_register!   *)
(* and define_mmio_register!.                                              *)
(***************************************************************************)
\* The fields of CpuRegister (tests/cpu.rs) and of Reg (tests/mmio.rs).
TestFields ==
    [MODE |-> [perm |-> "rw", kind |-> "enum", from |-> 0, to |-> 1,
               variants |-> <<<<"A", 0>>, <<"B", 1>>, <<"C", 2>>, <<"D", 3>>>>],
     FOO |-> [perm |-> "r", kind |-> "bit", bit |-> 2],
     BAR |-> [perm |-> "rw", kind |-> "bit", bit |-> 3],
     BAZ |-> [perm |-> "rw", kind |-> "bit", bit |-> 4],
     FLAGS |-> [perm |-> "rw", kind |-> "flags", from |-> 5, to |-> 8,
                variants |-> <<<<"A", 1>>, <<"B", 2>>, <<"C", 4>>, <<"D", 8>>>>]]

\* The field declarations shown in the documentation of
\* define_cpu_register!: an enum with two variants of the same value and
\* with bit patterns of no variant, and a flag group that leaves a bit of
\* its range undeclared.
DocFields ==
    [IS_ENABLED |-> [perm |-> "rw", kind |-> "bit", bit |-> 0],
     MODE |-> [perm |-> "rw", kind |-> "enum", from |-> 1, to |-> 3,
               variants |-> <<<<"User", 0>>, <<"Supervisor", 1>>,
                              <<"Machine", 1>>>>],
     FLAGS |-> [perm |-> "rw", kind |-> "flags", from |-> 4, to |-> 7,
                variants |-> <<<<"A", 1>>, <<"B", 2>>, <<"C", 4>>>>]]

\* The declared registers: how the register is accessed, its integer type
\* and its fields.
Decls ==
    [CpuRegister |-> [kind |-> "cpu", W |-> 64, fields |-> TestFields],
     Reg |-> [kind |-> "mmio", W |-> 16, fields |-> TestFields],
     DocRegister |-> [kind |-> "cpu", W |-> 64, fields |-> DocFields]]

\* The fields of the declared register.
Fields == Decls[decl].fields

\* The names of the fields of the given kind that have one of the given
\* permissions.
FieldNames(kind, perms) ==
    {f \in DOMAIN Fields : Fields[f].kind = kind /\ Fields[f].perm \in perms}

\* The range ($from, $to) of an enum or flags field.
RangeOf(f) == <<Fields[f].from, Fields[f].to>>

\* __perm_for_name__!($perm)
PermForName(p) ==
    CASE p = "r" -> ReadOnly
      [] p = "w" -> WriteOnly
      [] p = "rw" -> ReadWrite

\* 1 << $bit
Bit(b, W) == Shl(Lit(1), b, W)

\* The constant FIELD of a single-bit field.
FIELD(f) == Field_new(Bit(Fields[f].bit, width), PermForName(Fields[f].perm))

\* The constant SET of a single-bit field.
SET(f) == Value_new(Bit(Fields[f].bit, width), Bit(Fields[f].bit, width))

\* The constant CLEAR of a single-bit field.
CLEAR(f) == Value_new(Bit(Fields[f].bit, width), Lit(0))

(***************************************************************************)
(* What the generated accessors compute from the register value they read. *)
(***************************************************************************)
\* impl_cpu_set! that writes the mask alone.
impl_cpu_set_maskonly(val, mask) == mask

\* impl_cpu_set!: the value written is read() | mask
impl_cpu_set(val, mask) == BitOr(val, mask)

\* impl_cpu_clear! that writes 0 to the whole register.
impl_cpu_clear_all(val, mask, W) == Lit(0)

\* impl_cpu_clear!: the value written is read() & !mask
impl_cpu_clear(val, mask, W) == BitAnd(val, Not(mask, W))

\* Single bit get that tests the bit below.
bit_get_below(val, b, W) == BitAnd(val, Shr(Bit(b, W), 1)) # Lit(0)

\* Single bit get: val & (1 << $bit) != 0
bit_get(val, b, W) == BitAnd(val, Bit(b, W)) # Lit(0)

\* Single bit set of a CPU register that does nothing for set(false).
cpu_bit_set_noclear(val, b, x, W) ==
    IF x THEN impl_cpu_set(val, Bit(b, W)) ELSE val

\* Single bit set of a CPU register: RegisterWrite::set(MASK) or
\* RegisterWrite::clear(MASK).
cpu_bit_set(val, b, x, W) ==
    IF x THEN impl_cpu_set(val, Bit(b, W))
         ELSE impl_cpu_clear(val, Bit(b, W), W)

\* Single bit set of an MMIO register that sets the bit for both arguments.
mmio_bit_set_always(val, b, x, W) == BitOr(val, Bit(b, W))

\* Single bit set of an MMIO register.
mmio_bit_set(val, b, x, W) ==
    IF x THEN BitOr(val, Bit(b, W))
         ELSE BitAnd(val, Not(Bit(b, W), W))

None == [none |-> TRUE]

Some(v) == [some |-> v]

\* Enum get that returns the first variant when no variant matches.
enum_get_default(val, f, W) ==
    LET bits == get_bits(val, RangeOf(f), W)
        vs == Fields[f].variants
        arms == {i \in DOMAIN vs : Lit(vs[i][2]) = bits}
    IN  IF arms = {} THEN Some(vs[1][1])
        ELSE Some(vs[CHOOSE i \in arms : \A j \in arms : i <= j][1])

\* Enum get: the first arm of the match whose value equals the bits of the
\* range, or None.
enum_get(val, f, W) ==
    LET bits == get_bits(val, RangeOf(f), W)
        vs == Fields[f].variants
        arms == {i \in DOMAIN vs : Lit(vs[i][2]) = bits}
    IN  IF arms = {} THEN None
        ELSE Some(vs[CHOOSE i \in arms : \A j \in arms : i <= j][1])

\* The value of a variant of an enum field: the match of the enum set.
VariantVal(f, v) ==
    LET vs == Fields[f].variants
    IN  Lit(vs[CHOOSE i \in DOMAIN vs : vs[i][1] = v][2])

\* The variants of an enum field or the flags of a flags field.
Variants(f) == {Fields[f].variants[i][1] : i \in DOMAIN Fields[f].variants}

\* Enum set that ORs the variant's bits into the range.
enum_set_or(val, f, v, W) == BitOr(val, Shl(VariantVal(f, v), RangeOf(f)[1], W))

\* Enum set that builds the value from 0 instead of the value read.
enum_set_fresh(val, f, v, W) ==
    set_bits(Lit(0), RangeOf(f), VariantVal(f, v), W)

\* Enum set: the value written.
enum_set(val, f, v, W) == set_bits(val, RangeOf(f), VariantVal(f, v), W)

\* The bits of a set of flags: Flags::A | Flags::B | ...
FlagsOf(f, names) ==
    {i \in 0 .. 7 : \E v \in names : i \in VariantVal(f, v)}

\* Flags::all().bits()
FlagsAll(f) == FlagsOf(f, Variants(f))

\* Flags::from_bits_truncate(bits)
from_bits_truncate(f, bits) == BitAnd(bits, FlagsAll(f))

\* Flags get, returned as the bits of the flags struct.
flags_get(val, f, W) == from_bits_truncate(f, get_bits(val, RangeOf(f), W))

\* Flags set that ORs the flags into the range.
flags_set_or(val, f, flags, W) == BitOr(val, Shl(flags, RangeOf(f)[1], W))

\* Flags set: the value written for the flags struct with the given bits.
flags_set(val, f, flags, W) == set_bits(val, RangeOf(f), flags, W)

\* Register write that applies the value to !0 instead of 0.
reg_write_ones(v, W) == Value_modify(v, Not(Lit(0), W), W)

\* Register write(value): Value::modify(val, 0) is stored.
reg_write(v, W) == Value_modify(v, Lit(0), W)

\* Register modify that applies the value to 0, as write does.
reg_modify_zero(v, old, W) == Value_modify(v, Lit(0), W)

\* Register modify(value): Value::modify(val, reg) is stored.
reg_modify(v, old, W) == Value_modify(v, old, W)

(***************************************************************************)
(* Specification of the accesses to one register.  A caller is at "idle"   *)
(* before its update of the register, at "store" between the read and the  *)
(* write of a read-modify-write update, and at "done" after the update,    *)
(* where it still knows the update it made.  call is the last completed    *)
(* call.                                                                   *)
(***************************************************************************)
NoLocal == [none |-> TRUE]

\* The register contents of the tests: DEFAULT_REG_VALUE = 0b101 of
\* tests/cpu.rs and 0b111000000 of tests/mmio.rs, and the value 0b10111 of
\* the doc test of Field::read.
TestRegs == {{0, 2}, {6, 7, 8}, Lit(23)}

\* The register contents the register starts with and the raw values given
\* to set.
RegInts == Ints(width) \cup TestRegs

\* The fields given to read and is_set: the FIELD constants, their
\* combinations, and the mask of the doc test of Field::read as a field of
\* each permission (Field::new is public).
FieldArgs ==
    LET consts == {FIELD(f) : f \in FieldNames("bit", {"r", "w", "rw"})}
    IN  consts \cup {Field_new(Lit(30), P) : P \in {ReadOnly, WriteOnly, ReadWrite}} \cup
        {Field_bitor(fg[1], fg[2]) :
            fg \in {p \in consts \X consts :
                       Compatible(p[1].perm, p[2].perm) # NoImpl}}

\* The Values given to write and modify: the SET and CLEAR constants, their
\* combinations, and Values built by Value::new.
ValueArgs ==
    LET consts == {SET(f) : f \in FieldNames("bit", {"w", "rw"})}
                      \cup {CLEAR(f) : f \in FieldNames("bit", {"w", "rw"})}
    IN  consts \cup {Value_bitor(v, w) : v \in consts, w \in consts}
               \cup {Value_new(m, b) : m \in Ints(width), b \in Ints(width)}

\* The masks given to RegisterWrite::set and RegisterWrite::clear.
MaskArgs ==
    LET bits == {Bit(Fields[f].bit, width) : f \in FieldNames("bit", {"w", "rw"})}
    IN  bits \cup {BitOr(m, n) : m \in bits, n \in bits}

InitRegOf(callers, decls) ==
    /\ decl \in decls
    /\ width = Decls[decl].W
    /\ reg \in RegInts
    /\ pc = [c \in callers |-> "idle"]
    /\ loc = [c \in callers |-> NoLocal]
    /\ hist = NoHist
    /\ NoMemory
    /\ num = Default
    /\ vals = <<>>
    /\ flds = <<>>
    /\ call = Idle

\* A caller that is not in the middle of an update.
AtRest(c) == pc[c] \in {"idle", "done"}

\* The locals of the callers after caller c wrote the register in the
\* update upd: every other caller that is between its read and its write
\* has been interleaved with.
AfterWrite(c, upd) ==
    [d \in DOMAIN loc |->
        IF d = c THEN upd
        ELSE IF pc[d] = "store" THEN [loc[d] EXCEPT !.intr = TRUE]
        ELSE loc[d]]

\* The record of the writes after the update op with argument arg, where
\* a record is kept: the content the register started with and the updates
\* made to it, oldest first.
Logged(op, arg) ==
    IF hist = NoHist THEN hist
    ELSE [hist EXCEPT !.log = Append(hist.log, [op |-> op, arg |-> arg])]

\* The read of a read-modify-write update: the caller keeps the value it
\* read and the value it computed from it.
Load(c, op, arg, new) ==
    /\ pc[c] = "idle"
    /\ pc' = [pc EXCEPT ![c] = "store"]
    /\ loc' = [loc EXCEPT ![c] = [op |-> op, arg |-> arg, old |-> reg,
                                  new |-> new, intr |-> FALSE]]
    /\ UNCHANGED <<memvars, decl, reg, hist, width, num, vals, flds, call>>

\* A call that reads the register once and does not write it.
ReadOnlyCall(c, op, arg, out) ==
    /\ AtRest(c)
    /\ call' = [op |-> op, arg |-> arg, by |-> c, old |-> reg, out |-> out,
                before |-> reg, reads |-> 1, writes |-> 0]
    /\ UNCHANGED <<memvars, decl, reg, pc, loc, hist, width, num, vals, flds>>

\* A call that writes the register once and does not read it.
WriteOnlyCall(c, op, arg, new) ==
    /\ pc[c] = "idle"
    /\ reg' = new
    /\ pc' = [pc EXCEPT ![c] = "done"]
    /\ loc' = AfterWrite(c, [op |-> op, arg |-> arg, new |-> new])
    /\ call' = [op |-> op, arg |-> arg, by |-> c, out |-> new,
                before |-> reg, reads |-> 0, writes |-> 1]
    /\ hist' = Logged(op, arg)
    /\ UNCHANGED <<memvars, decl, width, num, vals, flds>>

\* The write that ends a read-modify-write update:
\* RegisterWrite::write(val) or VolAddr::write(self.0, val).
Store(c) ==
    /\ pc[c] = "store"
    /\ reg' = loc[c].new
    /\ pc' = [pc EXCEPT ![c] = "done"]
    /\ loc' = AfterWrite(c, loc[c])
    /\ call' = [op |-> loc[c].op, arg |-> loc[c].arg, by |-> c,
                old |-> loc[c].old, out |-> loc[c].new, before |-> reg,
                intr |-> loc[c].intr, reads |-> 1, writes |-> 1]
    /\ hist' = Logged(loc[c].op, loc[c].arg)
    /\ UNCHANGED <<memvars, decl, width, num, vals, flds>>

\* get(): the raw value of the register
RegGet(c) == ReadOnlyCall(c, "get", <<>>, reg)

\* set(val): write the raw value
RegSet(c, val) == WriteOnlyCall(c, "set", val, val)

\* read(field): P: Readable on a CPU register, P: Permission on an MMIO
\* register
RegRead(c, f) ==
    /\ IF Decls[decl].kind = "cpu" THEN Readable(f.perm) ELSE Permission(f.perm)
    /\ ReadOnlyCall(c, "read", f, Field_read(f, reg))

\* is_set(field)
RegIsSet(c, f) ==
    /\ IF Decls[decl].kind = "cpu" THEN Readable(f.perm) ELSE Permission(f.perm)
    /\ ReadOnlyCall(c, "is_set", f, Field_read(f, reg) # Lit(0))

\* write(value)
RegWrite(c, v) == WriteOnlyCall(c, "write", v, reg_write(v, width))

\* modify(value): the read
RegModify(c, v) == Load(c, "modify", v, reg_modify(v, reg, width))

\* RegisterWrite::set(mask) implemented by impl_cpu_set!: the read
CpuSet(c, mask) ==
    /\ Decls[decl].kind = "cpu"
    /\ Load(c, "cpu_set", mask, impl_cpu_set(reg, mask))

\* RegisterWrite::clear(mask) implemented by impl_cpu_clear!: the read
CpuClear(c, mask) ==
    /\ Decls[decl].kind = "cpu"
    /\ Load(c, "cpu_clear", mask, impl_cpu_clear(reg, mask, width))

\* FIELD::get() of a single-bit field
BitGet(c, f) ==
    ReadOnlyCall(c, "bit_get", f, bit_get(reg, Fields[f].bit, width))

\* FIELD::set(x) of a single-bit field: the read
BitSet(c, f, x) ==
    Load(c, "bit_set", <<f, x>>,
         IF Decls[decl].kind = "cpu"
         THEN cpu_bit_set(reg, Fields[f].bit, x, width)
         ELSE mmio_bit_set(reg, Fields[f].bit, x, width))

\* FIELD::get() of an enum field
EnumGet(c, f) == ReadOnlyCall(c, "enum_get", f, enum_get(reg, f, width))

\* FIELD::set(variant) of an enum field: the read
EnumSet(c, f, v) ==
    Load(c, "enum_set", <<f, v>>, enum_set(reg, f, v, width))

\* FIELD::get() of a flags field
FlagsGet(c, f) == ReadOnlyCall(c, "flags_get", f, flags_get(reg, f, width))

\* FIELD::set(flags) of a flags field: the read
FlagsSet(c, f, names) ==
    Load(c, "flags_set", <<f, names>>,
         flags_set(reg, f, FlagsOf(f, names), width))

\* The calls of one caller.
CallsOf(c) ==
    \/ RegGet(c)
    \/ \E val \in RegInts : RegSet(c, val)
    \/ \E f \in FieldArgs : RegRead(c, f)
    \/ \E f \in FieldArgs : RegIsSet(c, f)
    \/ \E v \in ValueArgs : RegWrite(c, v)
    \/ \E v \in ValueArgs : RegModify(c, v)
    \/ \E f \in FieldNames("bit", {"r", "rw"}) : BitGet(c, f)
    \/ \E f \in FieldNames("bit", {"w", "rw"}), x \in BOOLEAN : BitSet(c, f, x)
    \/ \E f \in FieldNames("enum", {"r", "rw"}) : EnumGet(c, f)
    \/ \E f \in FieldNames("enum", {"w", "rw"}) :
          \E v \in Variants(f) : EnumSet(c, f, v)
    \/ \E f \in FieldNames("flags", {"r", "rw"}) : FlagsGet(c, f)
    \/ \E f \in FieldNames("flags", {"w", "rw"}) :
          \E names \in SUBSET Variants(f) : FlagsSet(c, f, names)
    \/ Store(c)

\* One caller: every update runs without interleaving.
InitReg == InitRegOf({1}, DOMAIN Decls)

NextReg == CallsOf(1)

SpecReg == InitReg /\ [][NextReg]_vars

\* Two callers that update a CPU register through RegisterWrite::set and
\* RegisterWrite::clear and whose steps interleave.
InitRace == InitRegOf({1, 2}, {"CpuRegister"})

NextRace ==
    \E c \in {1, 2} :
        \/ \E mask \in MaskArgs : CpuSet(c, mask)
        \/ \E mask \in MaskArgs : CpuClear(c, mask)
        \/ Store(c)

SpecRace == InitRace /\ [][NextRace]_vars

\* The Values of the single-bit fields: the SET and CLEAR constants and
\* their combinations.
ConstValueArgs ==
    LET consts == {SET(f) : f \in FieldNames("bit", {"w", "rw"})}
                      \cup {CLEAR(f) : f \in FieldNames("bit", {"w", "rw"})}
    IN  consts \cup {Value_bitor(v, w) : v \in consts, w \in consts}

\* The field updates of one caller: each reads the register and then
\* writes it.
FieldUpdatesOf(c) ==
    \/ \E v \in ConstValueArgs : RegModify(c, v)
    \/ \E f \in FieldNames("bit", {"w", "rw"}), x \in BOOLEAN : BitSet(c, f, x)
    \/ \E f \in FieldNames("enum", {"w", "rw"}) :
          \E v \in Variants(f) : EnumSet(c, f, v)
    \/ \E f \in FieldNames("flags", {"w", "rw"}) :
          \E names \in SUBSET Variants(f) : FlagsSet(c, f, names)
    \/ Store(c)

\* Two callers that update fields of the same CPU or MMIO register and
\* whose steps interleave.
InitFieldRace == InitRegOf({1, 2}, {"CpuRegister", "Reg"})

NextFieldRace == \E c \in {1, 2} : FieldUpdatesOf(c)

SpecFieldRace == InitFieldRace /\ [][NextFieldRace]_vars

(***************************************************************************)
(* One caller that makes several field writes in a row to the register of  *)
(* the tests, reading the fields after each write.  hist holds the content *)
(* the register started with and the writes made so far.                   *)
(***************************************************************************)
\* The number of writes the caller makes.
MaxWrites == 2

\* The mask of the bit range of an enum or flags field.
RangeMask(f) == {i \in AllBits(width) : RangeOf(f)[1] <= i /\ i <= RangeOf(f)[2]}

\* The Value of an enum variant, as in Mode::B | BAZ::SET: the range of
\* the field as mask and the variant's value in the range as bits.
EnumValue(f, v) ==
    Value_new(RangeMask(f), Shl(VariantVal(f, v), RangeOf(f)[1], width))

\* The Value of a set of flags, as in Flags::A | Flags::B.
FlagsValue(f, names) ==
    Value_new(RangeMask(f), Shl(FlagsOf(f, names), RangeOf(f)[1], width))

\* let val = Mode::B | BAZ::SET | Flags::A | Flags::B;
TestValue ==
    Value_bitor(Value_bitor(Value_bitor(EnumValue("MODE", "B"), SET("BAZ")),
                            FlagsValue("FLAGS", {"A"})),
                FlagsValue("FLAGS", {"B"}))

\* The Values given to modify: the parts of the Value of the test, other
\* Values of the same fields, and combinations of them.
SeqValueArgs ==
    {EnumValue("MODE", "B"), SET("BAZ"), CLEAR("BAR"),
     FlagsValue("FLAGS", {"A", "B"}),
     Value_bitor(SET("BAZ"), EnumValue("MODE", "B")),
     TestValue}

\* The sets of flags given to the flags set.
SeqFlagArgs == {{}, {"B", "C"}}

InitSeq ==
    /\ decl \in {"CpuRegister", "Reg"}
    /\ width = Decls[decl].W
    /\ reg \in {{0, 2}, {6, 7, 8}}
    /\ pc = [c \in {1} |-> "idle"]
    /\ loc = [c \in {1} |-> NoLocal]
    /\ hist = [init |-> reg, log |-> <<>>]
    /\ NoMemory
    /\ num = Default
    /\ vals = <<>>
    /\ flds = <<>>
    /\ call = Idle

\* The caller goes on to its next write: no call of it has completed yet.
NextWrite(c) ==
    /\ pc[c] = "done"
    /\ Len(hist.log) < MaxWrites
    /\ pc' = [pc EXCEPT ![c] = "idle"]
    /\ call' = Idle
    /\ UNCHANGED <<memvars, decl, reg, loc, hist, width, num, vals, flds>>

NextSeq ==
    \/ \E v \in SeqValueArgs : RegModify(1, v)
    \/ \E f \in FieldNames("bit", {"w", "rw"}), x \in BOOLEAN : BitSet(1, f, x)
    \/ \E f \in FieldNames("enum", {"w", "rw"}) :
          \E v \in Variants(f) : EnumSet(1, f, v)
    \/ \E f \in FieldNames("flags", {"w", "rw"}) :
          \E names \in SeqFlagArgs : FlagsSet(1, f, names)
    \/ Store(1)
    \/ NextWrite(1)
    \/ pc[1] = "done" /\ RegGet(1)
    \/ \E f \in FieldNames("bit", {"r", "rw"}) : pc[1] = "done" /\ BitGet(1, f)
    \/ \E f \in FieldNames("enum", {"r", "rw"}) : pc[1] = "done" /\ EnumGet(1, f)
    \/ \E f \in FieldNames("flags", {"r", "rw"}) : pc[1] = "done" /\ FlagsGet(1, f)

SpecSeq == InitSeq /\ [][NextSeq]_vars

(***************************************************************************)
(* Claims about the registers                                              *)
(***************************************************************************)

\* C12: Field::read(val) is val & mask (mask 0b11110 on 0b10111 gives
\* 0b10110); the register-level read(field) returns exactly the bits of
\* the register that are in the field's mask, is_set(field) is true exactly
\* when one of them is 1, and neither changes the register.
C12_ReadIsRegAndMask ==
    /\ call.op = "read" =>
          /\ \A i \in AllBits(64) :
                i \in call.out <=> (i \in call.old /\ i \in call.arg.mask)
          /\ (call.arg.mask = Lit(30) /\ call.old = Lit(23)) =>
                call.out = Lit(22)
    /\ call.op = "is_set" =>
          (call.out <=> \E i \in call.arg.mask : i \in call.old)
    /\ call.op \in {"read", "is_set"} =>
          /\ reg = call.before
          /\ call.old = call.before
          /\ call.writes = 0

\* The doc test of Field::read, run against the register.
C12_Witness ==
    /\ call.op = "read"
    /\ call.arg.mask = Lit(30)
    /\ call.old = Lit(23)
    /\ call.out = Lit(22)
    /\ reg = Lit(23)

\* C13: when nothing runs between its read and its write, the fallback
\* RegisterWrite::set(mask) leaves the register at old | mask and the
\* fallback RegisterWrite::clear(mask) at old & !mask, old being the
\* register before the call: the bits outside the mask are unchanged.
C13_SetClearUninterleaved ==
    (call.op \in {"cpu_set", "cpu_clear"} /\ ~call.intr) =>
        /\ call.old = call.before
        /\ \A i \in AllBits(width) :
              IF i \in call.arg
              THEN i \in reg <=> (call.op = "cpu_set")
              ELSE i \in reg <=> i \in call.before

\* A clear that ran without interleaving while the other caller had already
\* updated the register, and that cleared a bit that was 1.
C13_Witness ==
    /\ call.op = "cpu_clear"
    /\ ~call.intr
    /\ \E d \in DOMAIN pc : d # call.by /\ pc[d] = "done"
    /\ reg # call.before
    /\ reg # Lit(0)

\* C14: the fallback is not atomic: when another caller writes the register
\* between a caller's read and its write, the caller's write puts every bit
\* outside its mask back to what it read, so the bits the other caller
\* changed there are lost.
C14_InterleavedWriteIsStale ==
    (call.op \in {"cpu_set", "cpu_clear"} /\ call.intr) =>
        \A i \in AllBits(width) \ call.arg : i \in reg <=> i \in call.old

\* The lost update: both callers have set their bit, nobody has cleared
\* anything, and the bit the first writer set is 0 again.
C14_Witness ==
    /\ call.op = "cpu_set"
    /\ call.intr
    /\ \E d \in DOMAIN pc :
          /\ d # call.by
          /\ pc[d] = "done"
          /\ loc[d].op = "cpu_set"
          /\ \E i \in loc[d].arg : i \in call.before /\ i \notin reg

\* C15: the register-level modify(value), on a CPU and on an MMIO
\* register, reads the register once and then writes it once, and what it
\* writes is (old & !mask) | bits: the bits inside the Value's mask come
\* from the Value, and without interleaving the bits outside it are the
\* ones the register had.
C15_ModifyOneReadOneWrite ==
    call.op = "modify" =>
        /\ call.reads = 1
        /\ call.writes = 1
        /\ call.old = call.before
        /\ reg = call.out
        /\ \A i \in AllBits(width) :
              i \in reg <=> \/ i \in call.old /\ i \notin call.arg.mask
                            \/ i \in call.arg.bits

\* A modify that changed the register and kept a 1 outside the mask.
C15_Witness ==
    /\ call.op = "modify"
    /\ reg # call.before
    /\ call.arg.bits # Lit(0)
    /\ call.arg.bits # call.arg.mask
    /\ \E i \in reg : i \notin call.arg.mask

\* C16: the register-level write(value) stores exactly value.bits without
\* reading the register: every bit outside the Value's mask is 0
\* afterwards, whatever it was before.
C16_WriteStoresBits ==
    call.op = "write" =>
        /\ call.reads = 0
        /\ call.writes = 1
        /\ reg = call.arg.bits
        /\ \A i \in AllBits(width) : i \notin call.arg.mask => i \notin reg

\* A write that zeroed a bit outside the mask that was 1.
C16_Witness ==
    /\ call.op = "write"
    /\ call.arg.bits # Lit(0)
    /\ \E i \in call.before : i \notin call.arg.mask /\ i \notin reg

\* The positions of the bit range of the field f.
InRange(f) == RangeOf(f)[1] .. RangeOf(f)[2]

\* The bits of val that are in the range of f, moved down to position 0.
RangeBits(val, f) == {i - RangeOf(f)[1] : i \in val \cap InRange(f)}

\* The declared values of the field f are pairwise different.
DistinctValues(f) ==
    \A v, w \in Variants(f) : v # w => VariantVal(f, v) # VariantVal(f, w)

\* Every declared value of the field f fits in the range of f.
ValuesFit(f) ==
    \A v \in Variants(f) : \A i \in VariantVal(f, v) : i < RangeLen(RangeOf(f))

\* C17: the get of an enum field returns a variant whose declared value
\* equals the bits of the field's range, and None when no declared value
\* equals them: for every register content the outcome is one of the two,
\* never a default variant, and the register is unchanged.
C17_EnumGetMatchOrNone ==
    call.op = "enum_get" =>
        LET f == call.arg
            matching == {v \in Variants(f) :
                            VariantVal(f, v) = RangeBits(call.old, f)}
        IN  /\ call.out \in {None} \cup {Some(v) : v \in Variants(f)}
            /\ call.out = None <=> matching = {}
            /\ call.out # None => call.out.some \in matching
            /\ reg = call.before

\* An enum get on a register whose range holds a pattern that no variant
\* declares, although other bits of the register are 1.
C17_Witness ==
    /\ call.op = "enum_get"
    /\ call.out = None
    /\ RangeBits(call.old, call.arg) # Lit(0)
    /\ \E i \in call.old : i \notin InRange(call.arg)

\* C18: for an enum field whose variants have distinct values that fit in
\* the range, set(v) writes v's pattern into the range and leaves every
\* bit outside the range as it was, and a following get() returns Some(v);
\* on the register 0b101 with MODE at bits 0..1, set(C = 0b10) gives 0b110.
C18_EnumSetThenGet ==
    /\ call.op = "enum_set" =>
          LET f == call.arg[1]
              v == call.arg[2]
          IN  (DistinctValues(f) /\ ValuesFit(f)) =>
                 /\ \A i \in AllBits(width) :
                       IF i \in InRange(f)
                       THEN i \in reg <=> (i - RangeOf(f)[1]) \in VariantVal(f, v)
                       ELSE i \in reg <=> i \in call.before
                 /\ (decl = "CpuRegister" /\ call.before = {0, 2} /\ v = "C")
                       => reg = {1, 2}
    /\ call.op = "enum_get" =>
          LET f == call.arg
              c == call.by
          IN  (/\ pc[c] = "done"
               /\ loc[c].op = "enum_set"
               /\ loc[c].arg[1] = f
               /\ DistinctValues(f)
               /\ ValuesFit(f)) => call.out = Some(loc[c].arg[2])

\* The get that follows set(C) on the CPU register 0b101.
C18_Witness ==
    /\ call.op = "enum_get"
    /\ decl = "CpuRegister"
    /\ pc[call.by] = "done"
    /\ loc[call.by].op = "enum_set"
    /\ loc[call.by].arg = <<"MODE", "C">>
    /\ loc[call.by].old = {0, 2}
    /\ reg = {1, 2}
    /\ call.out = Some("C")

\* C19: the get of a flags field returns exactly the declared flags whose
\* bit is 1 in the range, ignoring bits of the range that no flag declares;
\* set(flags) makes the range equal to the pattern of the flags, clearing
\* the flags that are not in the set, and leaves the bits outside the range
\* as they were.  The 16-bit register 0b0000000111000000 with FLAGS at
\* bits 5..8 yields {B, C, D}, and writing {B, C} leaves those two bits.
C19_FlagsGetSet ==
    /\ call.op = "flags_get" =>
          LET f == call.arg
              present == {v \in Variants(f) :
                             VariantVal(f, v) \subseteq RangeBits(call.old, f)}
          IN  /\ call.out = FlagsOf(f, present)
              /\ reg = call.before
              /\ (decl = "Reg" /\ call.old = {6, 7, 8})
                    => call.out = FlagsOf(f, {"B", "C", "D"})
    /\ call.op = "flags_set" =>
          LET f == call.arg[1]
              names == call.arg[2]
          IN  /\ \A i \in AllBits(width) :
                    IF i \in InRange(f)
                    THEN i \in reg <=>
                            \E v \in names : (i - RangeOf(f)[1]) \in VariantVal(f, v)
                    ELSE i \in reg <=> i \in call.before
              /\ (decl = "Reg" /\ call.before = {6, 7, 8} /\ names = {"B", "C"})
                    => reg = {6, 7}

\* The get that follows set({B, C}) on the MMIO register 0b111000000.
C19_Witness ==
    /\ call.op = "flags_get"
    /\ decl = "Reg"
    /\ pc[call.by] = "done"
    /\ loc[call.by].op = "flags_set"
    /\ loc[call.by].arg = <<"FLAGS", {"B", "C"}>>
    /\ loc[call.by].old = {6, 7, 8}
    /\ reg = {6, 7}
    /\ call.out = FlagsOf("FLAGS", {"B", "C"})

\* C20: the get of a single-bit field at bit b is true exactly when bit b
\* of the register is 1, and set(x) makes bit b equal to x and leaves
\* every other bit as it was, on a CPU register (through
\* RegisterWrite::set and RegisterWrite::clear) and on an MMIO register;
\* on the register 0b101 with BAR at bit 3, set(true) gives 0b1101.
C20_BitGetSet ==
    /\ call.op = "bit_get" =>
          /\ call.out <=> Fields[call.arg].bit \in call.old
          /\ reg = call.before
    /\ call.op = "bit_set" =>
          LET b == Fields[call.arg[1]].bit
              x == call.arg[2]
          IN  /\ \A i \in AllBits(width) :
                    IF i = b THEN i \in reg <=> x
                    ELSE i \in reg <=> i \in call.before
              /\ (call.before = {0, 2} /\ call.arg[1] = "BAR" /\ x)
                    => reg = {0, 2, 3}

\* The get that follows BAR::set(true) on the MMIO register 0b101.
C20_Witness ==
    /\ call.op = "bit_get"
    /\ call.arg = "BAR"
    /\ call.out
    /\ decl = "Reg"
    /\ pc[call.by] = "done"
    /\ loc[call.by].op = "bit_set"
    /\ loc[call.by].arg = <<"BAR", TRUE>>
    /\ loc[call.by].old = {0, 2}
    /\ reg = {0, 2, 3}

(***************************************************************************)
(* The Value invariant, checked under SpecValue, and the capabilities of   *)
(* the permission merge, checked under SpecField.                          *)
(***************************************************************************)
\* C28: every Value obtained by Value::new and any number of |
\* combinations has bits == bits & mask, and applying such a Value with
\* modify changes no bit outside the Value's mask.
C28_BitsInsideMask ==
    /\ \A s \in Slots :
          vals[s] # NoValue =>
              /\ BitAnd(vals[s].bits, vals[s].mask) = vals[s].bits
              /\ \A i \in vals[s].bits : i \in vals[s].mask
    /\ call.op = "Value::modify" =>
          \A i \in AllBits(width) :
              i \notin call.self.mask => (i \in call.out <=> i \in call.val)

\* A Value combined from two Values with different masks, one of them built
\* from bits reaching outside its mask, neither empty nor full.
C28_Witness ==
    /\ call.op = "Value::bitor"
    /\ call.self.mask # call.rhs.mask
    /\ call.out.mask \notin {call.self.mask, call.rhs.mask}
    /\ call.out.bits \notin {Lit(0), call.out.mask}
    /\ \E s \in Slots : vals[s] = call.out

\* C29: the permission merge is the intersection of the capabilities: where
\* Compatible(P1, P2) is defined its result is Readable exactly when P1 and
\* P2 are, and Writable exactly when P1 and P2 are; it is the same in both
\* operand orders; and it is undefined exactly for the pairs that share
\* neither capability.
C29_MergeIsIntersection ==
    /\ call.op = "Field::bitor" =>
          LET P1 == call.self.perm
              P2 == call.rhs.perm
              Pout == call.out.perm
          IN  /\ Pout \in {"ReadOnly", "WriteOnly", "ReadWrite"}
              /\ (Pout \in {"ReadOnly", "ReadWrite"}) <=>
                    (/\ P1 \in {"ReadOnly", "ReadWrite"}
                     /\ P2 \in {"ReadOnly", "ReadWrite"})
              /\ (Pout \in {"WriteOnly", "ReadWrite"}) <=>
                    (/\ P1 \in {"WriteOnly", "ReadWrite"}
                     /\ P2 \in {"WriteOnly", "ReadWrite"})
    /\ \A s \in Slots, t \in Slots :
          (flds[s] # NoField /\ flds[t] # NoField) =>
              LET P1 == flds[s].perm
                  P2 == flds[t].perm
                  shared == \/ {P1, P2} \subseteq {"ReadOnly", "ReadWrite"}
                            \/ {P1, P2} \subseteq {"WriteOnly", "ReadWrite"}
              IN  /\ (ENABLED FieldBitOr(s, t, s)) <=> shared
                  /\ (ENABLED FieldBitOr(s, t, s)) <=> (ENABLED FieldBitOr(t, s, s))
                  /\ shared => Field_bitor(flds[s], flds[t]).perm
                                  = Field_bitor(flds[t], flds[s]).perm

\* A ReadWrite field combined with a ReadOnly field gave a ReadOnly field,
\* which can be combined with the ReadWrite operand in both orders.
C29_Witness ==
    /\ call.op = "Field::bitor"
    /\ call.self.perm = "ReadWrite"
    /\ call.rhs.perm = "ReadOnly"
    /\ call.out.perm = "ReadOnly"
    /\ \E s \in Slots, t \in Slots :
          /\ flds[s] = call.out
          /\ flds[t] = call.self
          /\ ENABLED FieldBitOr(s, t, s)
          /\ ENABLED FieldBitOr(t, s, s)

(***************************************************************************)
(* The permission bound of read and is_set, checked under SpecReg.         *)
(***************************************************************************)
\* C30: the register-level read(field) and is_set(field) accept only
\* fields whose permission is Readable, on a CPU register and on an MMIO
\* register: they are never called with a WriteOnly field.
C30_ReadNeedsReadable ==
    call.op \in {"read", "is_set"} =>
        /\ call.arg.perm \in {"ReadOnly", "ReadWrite"}
        /\ call.arg.perm # "WriteOnly"

(***************************************************************************)
(* Interleaved field updates, checked under SpecFieldRace.                 *)
(***************************************************************************)
\* The bits that the update op with argument arg is meant to write.
CoveredBy(op, arg) ==
    CASE op = "modify" -> arg.mask
      [] op = "bit_set" -> {Fields[arg[1]].bit}
      [] op \in {"enum_set", "flags_set"} -> InRange(arg[1])

\* C25: the register-level read-modify-write updates are not atomic with
\* respect to each other: the write of a field update puts every bit
\* outside the updated field to what the caller read, which is the
\* register's content when the caller ran alone, and a stale content when
\* another caller wrote in between, so that the other caller's update to a
\* disjoint field is lost.
C25_FieldUpdateWritesWhatItRead ==
    call.op \in {"modify", "bit_set", "enum_set", "flags_set"} =>
        /\ \A i \in AllBits(width) \ CoveredBy(call.op, call.arg) :
              i \in reg <=> i \in call.old
        /\ ~call.intr => call.old = call.before

\* The lost update: the two callers updated disjoint fields, the other
\* caller's write was in the register when this caller wrote, and is not
\* there any more.
C25_Witness ==
    /\ call.op \in {"modify", "bit_set", "enum_set", "flags_set"}
    /\ call.intr
    /\ \E d \in DOMAIN pc :
          /\ d # call.by
          /\ pc[d] = "done"
          /\ CoveredBy(loc[d].op, loc[d].arg)
                \cap CoveredBy(call.op, call.arg) = {}
          /\ \E i \in CoveredBy(loc[d].op, loc[d].arg) :
                /\ i \in call.before <=> i \in loc[d].new
                /\ ~(i \in reg <=> i \in loc[d].new)

(***************************************************************************)
(* Sequences of writes by one caller, checked under SpecSeq.               *)
(***************************************************************************)
\* The bits that the write e is meant to put into the bits it covers.
WrittenBits(e) ==
    CASE e.op = "modify" -> e.arg.bits
      [] e.op = "bit_set" -> IF e.arg[2] THEN {Fields[e.arg[1]].bit} ELSE {}
      [] e.op = "enum_set" ->
            {RangeOf(e.arg[1])[1] + k : k \in VariantVal(e.arg[1], e.arg[2])}
      [] e.op = "flags_set" ->
            {RangeOf(e.arg[1])[1] + k :
                k \in UNION {VariantVal(e.arg[1], v) : v \in e.arg[2]}}

\* The writes of the record that cover bit i.
WritesTo(i) ==
    {k \in DOMAIN hist.log : i \in CoveredBy(hist.log[k].op, hist.log[k].arg)}

\* The most recent write of the record that covers bit i.
LastWriteTo(i) == CHOOSE k \in WritesTo(i) : \A j \in WritesTo(i) : j <= k

\* The register in which every bit has the value most recently written to
\* it, or the value it started with when no write covered it.
LastWritten ==
    {i \in AllBits(width) :
        IF WritesTo(i) = {} THEN i \in hist.init
        ELSE i \in WrittenBits(hist.log[LastWriteTo(i)])}

\* The orders in which n things can be taken.
Orders(n) == {p \in [1 .. n -> 1 .. n] : \A a, b \in 1 .. n : a # b => p[a] # p[b]}

RECURSIVE CombinedIn(_, _)
\* The Values of the first k writes in the order p, combined with |.
CombinedIn(p, k) ==
    IF k = 1 THEN hist.log[p[1]].arg
    ELSE Value_bitor(CombinedIn(p, k - 1), hist.log[p[k]].arg)

\* The writes of the record are modify calls with pairwise disjoint masks.
DisjointModifies ==
    /\ hist # NoHist
    /\ hist.log # <<>>
    /\ \A k \in DOMAIN hist.log : hist.log[k].op = "modify"
    /\ \A j, k \in DOMAIN hist.log :
          j # k => hist.log[j].arg.mask \cap hist.log[k].arg.mask = {}

\* C24: Values over pairwise disjoint masks applied each in its own modify
\* call, in any order, leave the register as one modify of their |
\* combination, in any operand order, leaves it; afterwards the bits of
\* each Value's mask hold that Value's bits, and after
\* modify(Mode::B | BAZ::SET | Flags::A | Flags::B) MODE reads B, BAZ reads
\* set and FLAGS reads {A, B}.
C24_CombinedIsSeparate ==
    /\ DisjointModifies =>
          /\ \A p \in Orders(Len(hist.log)) :
                reg = Value_modify(CombinedIn(p, Len(hist.log)), hist.init, width)
          /\ \A k \in DOMAIN hist.log :
                \A i \in hist.log[k].arg.mask :
                    i \in reg <=> i \in hist.log[k].arg.bits
          /\ \A i \in AllBits(width) : WritesTo(i) = {} => (i \in reg <=> i \in hist.init)
    /\ (hist # NoHist /\ hist.log = <<[op |-> "modify", arg |-> TestValue]>>) =>
          /\ call.op = "enum_get" => call.out = Some("B")
          /\ (call.op = "bit_get" /\ call.arg = "BAZ") => call.out
          /\ call.op = "flags_get" => call.out = FlagsOf("FLAGS", {"A", "B"})
          /\ hist.init = {0, 2} => reg = {0, 4, 5, 6, 2}

\* Two modify calls with disjoint masks, each of which changed the
\* register.
C24_Witness ==
    /\ DisjointModifies
    /\ Len(hist.log) >= 2
    /\ call.op = "modify"
    /\ \A k \in DOMAIN hist.log :
          \E i \in hist.log[k].arg.mask :
              ~(i \in hist.init <=> i \in hist.log[k].arg.bits)

\* C27: with one caller, after any sequence of single-bit sets, enum sets,
\* flags sets and modify calls on a register with pairwise disjoint fields,
\* each field reads back the value most recently written to it, or its
\* initial content when it was never written, and the bits that no write
\* covered have their initial value.
C27_ReadsBackLastWrite ==
    hist # NoHist =>
        /\ pc[1] # "store" => reg = LastWritten
        /\ \A i \in AllBits(width) :
              (pc[1] # "store" /\ WritesTo(i) = {}) => (i \in reg <=> i \in hist.init)
        /\ call.op = "bit_get" =>
              (call.out <=> Fields[call.arg].bit \in LastWritten)
        /\ call.op = "enum_get" =>
              /\ call.out # None
              /\ VariantVal(call.arg, call.out.some) = RangeBits(LastWritten, call.arg)
              /\ \A k \in DOMAIN hist.log :
                    (/\ hist.log[k].op = "enum_set"
                     /\ hist.log[k].arg[1] = call.arg
                     /\ k = LastWriteTo(RangeOf(call.arg)[1]))
                       => call.out = Some(hist.log[k].arg[2])
        /\ call.op = "flags_get" =>
              /\ call.out = RangeBits(LastWritten, call.arg)
              /\ \A k \in DOMAIN hist.log :
                    (/\ hist.log[k].op = "flags_set"
                     /\ hist.log[k].arg[1] = call.arg
                     /\ k = LastWriteTo(RangeOf(call.arg)[1]))
                       => call.out = FlagsOf(call.arg, hist.log[k].arg[2])

\* An enum get after two enum sets of different variants, which returns
\* the second, on a register that has 1-bits no write covered.
C27_Witness ==
    /\ hist # NoHist
    /\ Len(hist.log) >= 2
    /\ call.op = "enum_get"
    /\ hist.log[Len(hist.log)].op = "enum_set"
    /\ hist.log[Len(hist.log) - 1].op = "enum_set"
    /\ hist.log[Len(hist.log)].arg # hist.log[Len(hist.log) - 1].arg
    /\ call.out = Some(hist.log[Len(hist.log)].arg[2])
    /\ \E i \in reg : WritesTo(i) = {}

(***************************************************************************)
(* Volatile addresses (src/mmio.rs) and device structures                  *)
(* (define_mmio_struct!, src/mmio/macros.rs).                              *)
(***************************************************************************)

\* The most calls made on one volatile address.
MaxSteps == 3

\* The width of usize: addresses are numbers below 2^PtrBits (a target with
\* 16-bit pointers; the arithmetic is the same at 32 and 64 bits).
PtrBits == 16

Usize == 2 ^ PtrBits

\* size_of::<T>() of the integer types u8, u16, u32, u64.
Sizes == {1, 2, 4, 8}

\* The thread has panicked: the call did not return.
Panic == [panic |-> TRUE]

\* `offset as usize`: the two's complement reinterpretation of an isize.
AsUsize(offset) == offset % Usize

\* NonZeroUsize::new_unchecked(n).  With n = 0 the behaviour is undefined:
\* the value is taken as it is, or the precondition check of a build with
\* debug assertions stops the thread.
new_unchecked(n) == IF n = 0 THEN {[get |-> 0], Panic} ELSE {[get |-> n]}

\* A VolAddr<T> holding an address, with T of the given size.
VolAddrOf(a, size) ==
    IF a = Panic THEN Panic ELSE [addr |-> a.get, size |-> size]

\* VolAddr::<T>::new(addr): the outcomes of the call.
VolAddr_new(addr, size) == {VolAddrOf(a, size) : a \in new_unchecked(addr)}

\* VolAddr::cast::<U>(self): the address is kept, the type changes.
VolAddr_cast(self, size) == [addr |-> self.addr, size |-> size]

\* usize * usize: with overflow checks (a debug build) an overflowing
\* product panics, without them (a release build) it wraps around.
usize_mul(a, b, checks) ==
    IF checks /\ a * b >= Usize THEN Panic ELSE [get |-> (a * b) % Usize]

\* usize::wrapping_add.
wrapping_add(a, b) == (a + b) % Usize

\* VolAddr::offset(self, offset): the outcomes of the call.
VolAddr_offset(self, offset, checks) ==
    LET prod == usize_mul(AsUsize(offset), self.size, checks)
    IN  IF prod = Panic
        THEN {Panic}
        ELSE {VolAddrOf(a, self.size) :
                  a \in new_unchecked(wrapping_add(self.addr, prod.get))}

\* The addresses of the bits of the `size` bytes at addr: bit i of the value
\* stored there is the memory bit 8 * addr + i (little endian).
BitsAt(addr, size) == (8 * addr) .. (8 * (addr + size) - 1)

\* One volatile access of `size` bytes at addr.
Access(kind, addr, size, val) ==
    [kind |-> kind, addr |-> addr, size |-> size, val |-> val]

\* core::ptr::read_volatile(addr as *mut T): one load of the whole T.
read_volatile(addr, size, m) ==
    LET val == {i \in 0 .. (8 * size - 1) : (8 * addr + i) \in m}
    IN  [out |-> val, mem |-> m, acc |-> <<Access("load", addr, size, val)>>]

\* A store of the low byte of the value only.
write_volatile_low(addr, size, val, m) ==
    [mem |-> (m \ BitsAt(addr, 1)) \cup {8 * addr + i : i \in val \cap 0 .. 7},
     acc |-> <<Access("store", addr, size, val)>>]

\* core::ptr::write_volatile(addr as *mut T, val): one store of the whole T.
write_volatile(addr, size, val, m) ==
    [mem |-> (m \ BitsAt(addr, size)) \cup {8 * addr + i : i \in val},
     acc |-> <<Access("store", addr, size, val)>>]

\* VolAddr::read(self).
VolAddr_read(self, m) == read_volatile(self.addr, self.size, m)

\* VolAddr::write(self, val).
VolAddr_write(self, val, m) == write_volatile(self.addr, self.size, val, m)

\* Lit::read(&self): the read of the address it wraps.
Lit_read(self, m) == VolAddr_read(self, m)

\* Lit::write(&self, val): the write of the address it wraps.
Lit_write(self, val, m) == VolAddr_write(self, val, m)

\* The safety contract of VolAddr: the address is non-zero, aligned to T
\* and the whole T lies in memory.
ValidAddr(h) ==
    /\ h # Panic
    /\ h.addr # 0
    /\ h.addr % h.size = 0
    /\ h.addr + h.size <= Usize

\* The Device structure of tests/mmio.rs: the byte offset of each register
\* and the size of its integer type (Reg is u16, lit1 is Lit<u32>, lit2 is
\* Lit<u8>).
DeviceFields ==
    [one  |-> [offset |-> 0,  size |-> 2],
     two  |-> [offset |-> 8,  size |-> 2],
     lit1 |-> [offset |-> 10, size |-> 4],
     lit2 |-> [offset |-> 14, size |-> 1]]

DeviceNames == DOMAIN DeviceFields

\* The size of the memory region of a Device (MmioRegion::new(16)).
DeviceLen == 16

\* Device::new(addr): a VolAddr<u8> at the base address.
Device_new(addr) == VolAddr_new(addr, 1)

\* An accessor that casts to the register's type before it offsets.
Device_field_cast_first(self, name, checks) ==
    VolAddr_offset(VolAddr_cast(self, DeviceFields[name].size),
                   DeviceFields[name].offset, checks)

\* The accessor of a register: VolAddr::cast(VolAddr::offset(self.0, k)).
Device_field(self, name, checks) ==
    {IF o = Panic THEN Panic ELSE VolAddr_cast(o, DeviceFields[name].size) :
         o \in VolAddr_offset(self, DeviceFields[name].offset, checks)}

\* The addresses given to VolAddr::new, the base addresses of the device
\* and the offsets given to VolAddr::offset.
Addrs == {8, Usize - 8}

Bases == {258}

Counts == {-8, -1, 0, 1, Usize \div 4}

\* The values written: 0xAB and the greatest value of each integer type.
WriteVals == {Lit(171)} \cup {0 .. (8 * size - 1) : size \in Sizes}

\* The memory at the start: all zero (vec![0u8; size]) or every bit of the
\* device region set.
InitMems(base) == {{}, BitsAt(base, DeviceLen)}

InitMmio ==
    /\ \E b \in Bases :
           /\ dev \in Device_new(b)
           /\ mem \in InitMems(b)
    /\ \E a \in Addrs \cup Bases, size \in Sizes : hnd \in VolAddr_new(a, size)
    /\ build \in [overflow_checks : BOOLEAN]
    /\ trace = <<>>
    /\ steps = 0
    /\ NoRegister
    /\ width = 8
    /\ num = Default
    /\ vals = <<>>
    /\ flds = <<>>
    /\ call = Idle

\* One more call on a live program.
Step ==
    /\ steps < MaxSteps
    /\ hnd # Panic
    /\ steps' = steps + 1
    /\ UNCHANGED <<width, num, vals, flds, regvars, dev, build>>

Cast(size) ==
    /\ Step
    /\ hnd' = VolAddr_cast(hnd, size)
    /\ call' = [op |-> "VolAddr::cast", self |-> hnd, size |-> size]
    /\ UNCHANGED <<mem, trace>>

Offset(count) ==
    /\ Step
    /\ hnd' \in VolAddr_offset(hnd, count, build.overflow_checks)
    /\ call' = [op |-> "VolAddr::offset", self |-> hnd, count |-> count]
    /\ UNCHANGED <<mem, trace>>

DeviceField(name) ==
    /\ Step
    /\ hnd' \in Device_field(dev, name, build.overflow_checks)
    /\ call' = [op |-> "Device::field", self |-> dev, name |-> name]
    /\ UNCHANGED <<mem, trace>>

Read(via) ==
    /\ Step
    /\ ValidAddr(hnd)
    /\ LET r == IF via = "Lit" THEN Lit_read(hnd, mem)
                ELSE VolAddr_read(hnd, mem)
       IN  /\ mem' = r.mem
           /\ trace' = trace \o r.acc
           /\ call' = [op |-> "VolAddr::read", via |-> via, self |-> hnd,
                       out |-> r.out, before |-> mem, done |-> Len(trace),
                       after |-> call.op]
    /\ UNCHANGED hnd

Write(via, val) ==
    /\ Step
    /\ ValidAddr(hnd)
    /\ val \subseteq 0 .. (8 * hnd.size - 1)
    /\ LET r == IF via = "Lit" THEN Lit_write(hnd, val, mem)
                ELSE VolAddr_write(hnd, val, mem)
       IN  /\ mem' = r.mem
           /\ trace' = trace \o r.acc
           /\ call' = [op |-> "VolAddr::write", via |-> via, self |-> hnd,
                       val |-> val, before |-> mem, done |-> Len(trace),
                       after |-> call.op]
    /\ UNCHANGED hnd

NextMmio ==
    \/ \E size \in Sizes : Cast(size)
    \/ \E count \in Counts : Offset(count)
    \/ \E name \in DeviceNames : DeviceField(name)
    \/ \E via \in {"VolAddr", "Lit"} : Read(via)
    \/ \E via \in {"VolAddr", "Lit"} : \E val \in WriteVals : Write(via, val)

SpecMmio == InitMmio /\ [][NextMmio]_vars

(***************************************************************************)
(* Claims about the volatile addresses and the device structures.          *)
(***************************************************************************)

\* The value of the `size` bytes at addr in the memory m.
ValueAt(addr, size, m) == {i \in 0 .. (8 * size - 1) : (8 * addr + i) \in m}

\* C21: each call of VolAddr::read and Lit::read makes exactly one load of
\* the whole T at the address and returns what the memory holds there, each
\* call of VolAddr::write and Lit::write makes exactly one store of the
\* whole T, and a read that follows a write of the same address with no
\* access in between returns the value written.
C21_OneAccessPerCall ==
    /\ call.op = "VolAddr::read" =>
           /\ Len(trace) = call.done + 1
           /\ trace[Len(trace)] =
                  Access("load", call.self.addr, call.self.size, call.out)
           /\ call.out = ValueAt(call.self.addr, call.self.size, call.before)
           /\ mem = call.before
    /\ call.op = "VolAddr::write" =>
           /\ Len(trace) = call.done + 1
           /\ trace[Len(trace)] =
                  Access("store", call.self.addr, call.self.size, call.val)
           /\ ValueAt(call.self.addr, call.self.size, mem) = call.val
    /\ \A n \in 2 .. Len(trace) :
           /\ trace[n].kind = "load"
           /\ trace[n - 1].kind = "store"
           /\ trace[n].addr = trace[n - 1].addr
           /\ trace[n].size = trace[n - 1].size
           => trace[n].val = trace[n - 1].val

\* A Lit<u32> is written with its greatest value over zeroed memory and the
\* next call reads it back.
C21_Witness ==
    /\ call.op = "VolAddr::read"
    /\ call.via = "Lit"
    /\ call.after = "VolAddr::write"
    /\ call.self.size = 4
    /\ Len(trace) = 2
    /\ trace[1] = Access("store", call.self.addr, 4, 0 .. 31)
    /\ call.out = 0 .. 31
    /\ mem = BitsAt(call.self.addr, 4)

\* C22: VolAddr::offset(count) returns the address
\* (address + count * size_of::<T>()) modulo 2^W for every signed count, the
\* product and the sum wrapping around instead of failing (stated for the
\* counts whose wrapped sum is not 0, the case of C23).
C22_OffsetWraps ==
    /\ call.op = "VolAddr::offset"
    /\ (call.self.addr + call.count * call.self.size) % Usize # 0
    => /\ hnd # Panic
       /\ hnd = [addr |-> (call.self.addr + call.count * call.self.size) % Usize,
                 size |-> call.self.size]

\* C23: the address held by a VolAddr is never 0: from new with a non-zero
\* address no sequence of cast and offset calls returns a handle whose
\* address is 0.
C23_AddressNonZero ==
    /\ dev # Panic => dev.addr # 0
    /\ hnd # Panic => hnd.addr # 0

\* The handle of the register `name` of the device.
RegisterAt(name) ==
    [addr |-> dev.addr + DeviceFields[name].offset,
     size |-> DeviceFields[name].size]

====
